---- MODULE Spec2Model ----
(***************************************************************************)
(* One run of the Streamlit script datacomparaison.py: two optional Excel  *)
(* uploads are loaded, a (thickness, density) pair is selected, the        *)
(* matching absorption column of each dataset is sliced out, the area      *)
(* under each curve is integrated with the trapezoidal rule, the areas are *)
(* compared and the curves are plotted.                                    *)
(*                                                                         *)
(* Numbers.  Frequencies are integers (Hz).  Absorption coefficients are   *)
(* integers counting hundredths (0.25 is 25), so an area counts hundredths *)
(* of Hz (550.0 is 55000).  All modelled frequency steps are even, so the  *)
(* halving of the trapezoidal rule is exact.  A float is a record          *)
(* [k, v]: k = "num" with the value v, or k = "nan".  A quotient is a      *)
(* record [k, n, d]: k = "num" for n / d (d > 0), "inf" for a non-zero     *)
(* value divided by zero (the sign of the infinity is not tracked), "nan"  *)
(* for 0/0 or anything involving a NaN.  numpy float64 division by zero    *)
(* gives inf or nan and a RuntimeWarning, never an exception.              *)
(***************************************************************************)
EXTENDS Integers, Sequences, FiniteSets, TLC

VARIABLES pc, uploaded_file_1, uploaded_file_2, dataset_1, dataset_2,
          file_name_1, file_name_2, thickness_selected, density_selected,
          thickness_index_1, density_index_1, thickness_index_2, density_index_2,
          absorption_curve_1, absorption_curve_2, area_1, area_2,
          diff_percentage, absorption_message, fig, plotted, ui, exception

vars == <<pc, uploaded_file_1, uploaded_file_2, dataset_1, dataset_2,
          file_name_1, file_name_2, thickness_selected, density_selected,
          thickness_index_1, density_index_1, thickness_index_2, density_index_2,
          absorption_curve_1, absorption_curve_2, area_1, area_2,
          diff_percentage, absorption_message, fig, plotted, ui, exception>>

\* ------------------------------------------------------------------------
\* Bounds of the generated input tables.
MaxRows == 2
MaxCols == 3

\* ------------------------------------------------------------------------
\* Floats and cells.
Num(v) == [k |-> "num", v |-> v]
NaN == [k |-> "nan", v |-> 0]
IsNaN(x) == x.k = "nan"

Reverse(s) == [i \in 1..Len(s) |-> s[Len(s) + 1 - i]]

\* ------------------------------------------------------------------------
\* Input tables: what pd.read_excel(file, sheet_name=0, header=0) yields.
\* A table is [readable, ncols, rows]; every row has ncols cells.

\* A row kind is a frequency cell and an absorption pattern.  Absorption
\* column c (counted from 0) of a value row holds base + 10 * c, so that
\* different columns hold different curves.
RowKinds ==
    { [f |-> Num(100), pat |-> "value",    base |-> 0],
      [f |-> Num(200), pat |-> "value",    base |-> 50],
      [f |-> NaN,      pat |-> "value",    base |-> 50],   \* missing frequency, absorption present
      [f |-> Num(200), pat |-> "allNaN",   base |-> 0],    \* frequency present, absorption all missing
      [f |-> Num(200), pat |-> "firstNaN", base |-> 50] }  \* absorption partially missing

MakeRow(kind, w) ==
    [j \in 1..w |->
        IF j = 1 THEN kind.f
        ELSE IF kind.pat = "allNaN" THEN NaN
        ELSE IF kind.pat = "firstNaN" /\ j = 2 THEN NaN
        ELSE Num(kind.base + 10 * (j - 2))]

RowAlphabet(w) == { MakeRow(kind, w) : kind \in RowKinds }

SeqsUpTo(S, n) == UNION { [1..len -> S] : len \in 0..n }

TablesOfWidth(w) ==
    { [readable |-> TRUE, ncols |-> w, rows |-> rs] :
        rs \in SeqsUpTo(RowAlphabet(w), MaxRows) }

GeneratedTables == UNION { TablesOfWidth(w) : w \in 0..MaxCols }

\* A two-column table from a frequency list and one absorption list.
CurveTable(freqs, alphas) ==
    [readable |-> TRUE, ncols |-> 2,
     rows |-> [i \in 1..Len(freqs) |-> <<freqs[i], alphas[i]>>]]

ScenarioFrequencies == <<Num(100), Num(500), Num(1000), Num(2000)>>
ScenarioA == CurveTable(ScenarioFrequencies, <<Num(20), Num(40), Num(60), Num(80)>>)
ScenarioB == CurveTable(ScenarioFrequencies, <<Num(25), Num(45), Num(65), Num(85)>>)

\* Three frequencies, one absorption row: the shapes numpy cannot broadcast.
RaggedTable == CurveTable(<<Num(100), Num(200), Num(500)>>, <<NaN, NaN, Num(50)>>)

\* A file pd.read_excel cannot read (it raises).
UnreadableTable == [readable |-> FALSE, ncols |-> 0, rows |-> <<>>]

Tables == GeneratedTables \cup {ScenarioA, ScenarioB, RaggedTable, UnreadableTable}

\* File names are sequences of characters.
Name_A == <<"D","a","t","a","s","e","t","_","A",".","x","l","s","x">>
Name_B == <<"D","a","t","a","s","e","t","_","B",".","x","l","s","x">>

NoFile == [present |-> FALSE, name |-> <<>>, table |-> UnreadableTable]
UploadedFile(name, table) == [present |-> TRUE, name |-> name, table |-> table]

\* ------------------------------------------------------------------------
\* load_data_from_excel

\* A dataset is the 4-tuple the loader returns; none = TRUE is the
\* (None, None, None, None) result.  absorption_data keeps its column count,
\* since a numpy array of shape (0, k) still has k columns.
NoneDataset ==
    [none |-> TRUE, frequencies |-> <<>>, thicknesses |-> <<>>, densities |-> <<>>,
     absorption_data |-> [ncols |-> 0, rows |-> <<>>]]

grid_thicknesses == <<10, 20, 30>>
grid_densities == <<75, 110, 150>>

NotNaN(cell) == ~IsNaN(cell)
AnyNotNaN(row) == \E j \in 1..Len(row) : ~IsNaN(row[j])

\* df.iloc[:, 0].dropna().values
dropna_frequencies(table) ==
    LET column == [i \in 1..Len(table.rows) |-> table.rows[i][1]]
        kept == SelectSeq(column, NotNaN)
    IN  [i \in 1..Len(kept) |-> kept[i].v]

\* df.iloc[:, 1:].dropna(axis=0, how="all").values
dropna_absorption(table) ==
    LET block == [i \in 1..Len(table.rows) |-> Tail(table.rows[i])]
    IN  [ncols |-> table.ncols - 1, rows |-> SelectSeq(block, AnyNotNaN)]

\* The loader without the lower bound of two columns (one column passes).
load_data_from_excel_one_column_passes(file) ==
    IF ~file.table.readable
    THEN [data |-> NoneDataset, error |-> "read"]
    ELSE IF file.table.ncols < 1
    THEN [data |-> NoneDataset, error |-> "columns"]
    ELSE IF Len(dropna_frequencies(file.table)) = 0
    THEN [data |-> NoneDataset, error |-> "empty"]
    ELSE [data |-> [none |-> FALSE,
                    frequencies |-> dropna_frequencies(file.table),
                    thicknesses |-> grid_thicknesses,
                    densities |-> grid_densities,
                    absorption_data |-> dropna_absorption(file.table)],
          error |-> ""]

\* The loader; error names the exception the except clause reported, or "".
load_data_from_excel(file) ==
    IF ~file.table.readable
    THEN [data |-> NoneDataset, error |-> "read"]
    ELSE IF file.table.ncols < 2
    THEN [data |-> NoneDataset, error |-> "columns"]
    ELSE IF Len(dropna_frequencies(file.table)) = 0
    THEN [data |-> NoneDataset, error |-> "empty"]
    ELSE [data |-> [none |-> FALSE,
                    frequencies |-> dropna_frequencies(file.table),
                    thicknesses |-> grid_thicknesses,
                    densities |-> grid_densities,
                    absorption_data |-> dropna_absorption(file.table)],
          error |-> ""]

\* The data the script substitutes when a file is not uploaded.
DefaultDataset ==
    [none |-> FALSE,
     frequencies |-> <<100, 500, 1000, 2000>>,
     thicknesses |-> <<10, 20, 30>>,
     densities |-> <<75, 110, 150>>,
     absorption_data |->
        [ncols |-> 4,
         rows |-> << <<Num(20), Num(40), Num(60), Num(80)>>,
                     <<Num(25), Num(45), Num(65), Num(85)>>,
                     <<Num(30), Num(50), Num(70), Num(90)>> >>]]

\* os.path.splitext(name)[0]: the name up to its last dot.
splitext_stem(name) ==
    LET dots == { i \in 1..Len(name) : name[i] = "." }
    IN  IF dots = {} THEN name
        ELSE SubSeq(name, 1, (CHOOSE i \in dots : \A j \in dots : j <= i) - 1)

DefaultName_1 == <<"F","i","l","e","_","1">>
DefaultName_2 == <<"F","i","l","e","_","2">>

selectbox_thickness == <<10, 20, 30>>
selectbox_density == <<75, 110, 150>>

\* np.where(array == value)[0][0]: 0-based position of the first match,
\* -1 standing for the IndexError of an empty match.
first_index(array, value) ==
    LET hits == { i \in 1..Len(array) : array[i] = value }
    IN  IF hits = {} THEN -1
        ELSE (CHOOSE i \in hits : \A j \in hits : i <= j) - 1

\* ------------------------------------------------------------------------
\* calculate_area

RECURSIVE SumFloats(_)
SumFloats(terms) ==
    IF Len(terms) = 0 THEN Num(0)
    ELSE LET rest == SumFloats(Tail(terms))
         IN  IF IsNaN(Head(terms)) \/ IsNaN(rest) THEN NaN
             ELSE Num(Head(terms).v + rest.v)

\* Length of the elementwise product of arrays of lengths m and n under
\* numpy broadcasting; -1 when the shapes cannot be broadcast (ValueError).
broadcast_length(m, n) ==
    IF m = n THEN m
    ELSE IF m = 1 THEN n
    ELSE IF n = 1 THEN m
    ELSE -1

slice_length(len) == IF len = 0 THEN 0 ELSE len - 1

\* The integration that stops one interval early (an off-by-one in the
\* slices).
calculate_area_without_last_interval(frequencies, absorption_curve) ==
    LET m == slice_length(Len(absorption_curve))
        n == slice_length(Len(frequencies))
        len == broadcast_length(m, n)
        term(i) ==
            LET a == IF m = 1 THEN 1 ELSE i
                b == IF n = 1 THEN 1 ELSE i
                y0 == absorption_curve[a]
                y1 == absorption_curve[a + 1]
                dx == frequencies[b + 1] - frequencies[b]
            IN  IF IsNaN(y0) \/ IsNaN(y1) THEN NaN
                ELSE Num(((y0.v + y1.v) * dx) \div 2)
    IN  IF len = -1
        THEN [raised |-> TRUE, area |-> NaN]
        ELSE [raised |-> FALSE, area |-> SumFloats([i \in 1..(len - 1) |-> term(i)])]

\* The integration with left rectangles (curve[:-1] only) in place of
\* trapezoids.
calculate_area_left_rectangles(frequencies, absorption_curve) ==
    LET m == slice_length(Len(absorption_curve))
        n == slice_length(Len(frequencies))
        len == broadcast_length(m, n)
        term(i) ==
            LET a == IF m = 1 THEN 1 ELSE i
                b == IF n = 1 THEN 1 ELSE i
                y0 == absorption_curve[a]
                dx == frequencies[b + 1] - frequencies[b]
            IN  IF IsNaN(y0) THEN NaN
                ELSE Num(y0.v * dx)
    IN  IF len = -1
        THEN [raised |-> TRUE, area |-> NaN]
        ELSE [raised |-> FALSE, area |-> SumFloats([i \in 1..len |-> term(i)])]

\* np.sum((curve[:-1] + curve[1:]) / 2 * np.diff(frequencies))
calculate_area(frequencies, absorption_curve) ==
    LET m == slice_length(Len(absorption_curve))
        n == slice_length(Len(frequencies))
        len == broadcast_length(m, n)
        term(i) ==
            LET a == IF m = 1 THEN 1 ELSE i
                b == IF n = 1 THEN 1 ELSE i
                y0 == absorption_curve[a]
                y1 == absorption_curve[a + 1]
                dx == frequencies[b + 1] - frequencies[b]
            IN  IF IsNaN(y0) \/ IsNaN(y1) THEN NaN
                ELSE Num(((y0.v + y1.v) * dx) \div 2)
    IN  IF len = -1
        THEN [raised |-> TRUE, area |-> NaN]
        ELSE [raised |-> FALSE, area |-> SumFloats([i \in 1..len |-> term(i)])]

\* ------------------------------------------------------------------------
\* The comparison of lines 128-136.

format_filename(filename) ==
    [i \in 1..Len(filename) |-> IF filename[i] = "_" THEN " " ELSE filename[i]]

\* ((x - y) / y) * 100 on float64.
percent_more(x, y) ==
    IF IsNaN(x) \/ IsNaN(y) THEN [k |-> "nan", n |-> 0, d |-> 1]
    ELSE IF y.v = 0
    THEN IF x.v = 0 THEN [k |-> "nan", n |-> 0, d |-> 1]
         ELSE [k |-> "inf", n |-> 0, d |-> 1]
    ELSE IF y.v > 0 THEN [k |-> "num", n |-> (x.v - y.v) * 100, d |-> y.v]
    ELSE [k |-> "num", n |-> (y.v - x.v) * 100, d |-> 0 - y.v]

\* area_1 > area_2 on float64: false when either side is NaN.
float_greater(x, y) == ~IsNaN(x) /\ ~IsNaN(y) /\ x.v > y.v

\* f"{q:.2f}": the quotient in hundredths, rounded to nearest (ties to even).
format_2f(q) ==
    IF q.k # "num" THEN [k |-> q.k, hundredths |-> 0]
    ELSE LET scaled == q.n * 100
             floor == scaled \div q.d
             twice == 2 * (scaled - floor * q.d)
         IN  [k |-> "num",
              hundredths |-> IF twice > q.d \/ (twice = q.d /\ floor % 2 = 1)
                             THEN floor + 1 ELSE floor]

\* The comparison whose else branch keeps the operands of the if branch:
\* ((area_1 - area_2) / area_2) * 100 on both sides.
compare_same_quotient_in_both_branches(a_1, a_2, name_1, name_2) ==
    IF float_greater(a_1, a_2)
    THEN [diff_percentage |-> percent_more(a_1, a_2),
          sentence |-> [larger |-> format_filename(name_1),
                        percent |-> format_2f(percent_more(a_1, a_2)),
                        smaller |-> format_filename(name_2)]]
    ELSE [diff_percentage |-> percent_more(a_1, a_2),
          sentence |-> [larger |-> format_filename(name_2),
                        percent |-> format_2f(percent_more(a_1, a_2)),
                        smaller |-> format_filename(name_1)]]

\* Lines 131-136: the percentage and the sentence
\* f"{larger} absorbs {diff_percentage:.2f}% more than {smaller}."
compare(a_1, a_2, name_1, name_2) ==
    IF float_greater(a_1, a_2)
    THEN [diff_percentage |-> percent_more(a_1, a_2),
          sentence |-> [larger |-> format_filename(name_1),
                        percent |-> format_2f(percent_more(a_1, a_2)),
                        smaller |-> format_filename(name_2)]]
    ELSE [diff_percentage |-> percent_more(a_2, a_1),
          sentence |-> [larger |-> format_filename(name_2),
                        percent |-> format_2f(percent_more(a_2, a_1)),
                        smaller |-> format_filename(name_1)]]

\* ------------------------------------------------------------------------
\* The script run.

Unset == [k |-> "unset", v |-> 0]
UnsetQuotient == [k |-> "unset", n |-> 0, d |-> 1]
UnsetMessage ==
    [method |-> "", self |-> [larger |-> <<>>, percent |-> [k |-> "unset", hundredths |-> 0],
                              smaller |-> <<>>]]

\* The uncaught exception of np.where(None == value)[0][0]: IndexError on
\* the empty match, or the ValueError newer numpy raises for a 0-d nonzero.
WhereOnNoneExceptions == {"IndexError", "ValueError"}

Init ==
    /\ pc = "upload"
    /\ uploaded_file_1 = NoFile
    /\ uploaded_file_2 = NoFile
    /\ dataset_1 = NoneDataset
    /\ dataset_2 = NoneDataset
    /\ file_name_1 = <<>>
    /\ file_name_2 = <<>>
    /\ thickness_selected = 0
    /\ density_selected = 0
    /\ thickness_index_1 = -1
    /\ density_index_1 = -1
    /\ thickness_index_2 = -1
    /\ density_index_2 = -1
    /\ absorption_curve_1 = <<>>
    /\ absorption_curve_2 = <<>>
    /\ area_1 = Unset
    /\ area_2 = Unset
    /\ diff_percentage = UnsetQuotient
    /\ absorption_message = UnsetMessage
    /\ fig = FALSE
    /\ plotted = <<>>
    /\ ui = {}
    /\ exception = ""

\* Lines 21-22: the two file_uploader widgets.
Upload ==
    /\ pc = "upload"
    /\ \E f1 \in {NoFile} \cup { UploadedFile(Name_A, t) : t \in Tables },
          f2 \in {NoFile} \cup { UploadedFile(Name_B, t) : t \in Tables } :
            /\ uploaded_file_1' = f1
            /\ uploaded_file_2' = f2
    /\ pc' = "load"
    /\ UNCHANGED <<dataset_1, dataset_2, file_name_1, file_name_2,
                   thickness_selected, density_selected,
                   thickness_index_1, density_index_1, thickness_index_2, density_index_2,
                   absorption_curve_1, absorption_curve_2, area_1, area_2,
                   diff_percentage, absorption_message, fig, plotted, ui, exception>>

\* Lines 62-83: load both files, or substitute the default data.
LoadData ==
    /\ pc = "load"
    /\ IF uploaded_file_1.present /\ uploaded_file_2.present
       THEN LET r1 == load_data_from_excel(uploaded_file_1)
                r2 == load_data_from_excel(uploaded_file_2)
            IN  /\ dataset_1' = r1.data
                /\ dataset_2' = r2.data
                /\ file_name_1' = splitext_stem(uploaded_file_1.name)
                /\ file_name_2' = splitext_stem(uploaded_file_2.name)
                /\ ui' = ui \cup (IF r1.error # "" THEN {"load_error_1"} ELSE {})
                            \cup (IF r2.error # "" THEN {"load_error_2"} ELSE {})
       ELSE /\ dataset_1' = DefaultDataset
            /\ dataset_2' = DefaultDataset
            /\ file_name_1' = DefaultName_1
            /\ file_name_2' = DefaultName_2
            /\ ui' = ui
    /\ pc' = "select"
    /\ UNCHANGED <<uploaded_file_1, uploaded_file_2,
                   thickness_selected, density_selected,
                   thickness_index_1, density_index_1, thickness_index_2, density_index_2,
                   absorption_curve_1, absorption_curve_2, area_1, area_2,
                   diff_percentage, absorption_message, fig, plotted, exception>>

\* Lines 86-96: the two selectbox widgets.
SelectParameters ==
    /\ pc = "select"
    /\ \E t \in 1..Len(selectbox_thickness), d \in 1..Len(selectbox_density) :
            /\ thickness_selected' = selectbox_thickness[t]
            /\ density_selected' = selectbox_density[d]
    /\ pc' = "index"
    /\ UNCHANGED <<uploaded_file_1, uploaded_file_2, dataset_1, dataset_2,
                   file_name_1, file_name_2,
                   thickness_index_1, density_index_1, thickness_index_2, density_index_2,
                   absorption_curve_1, absorption_curve_2, area_1, area_2,
                   diff_percentage, absorption_message, fig, plotted, ui, exception>>

\* Lines 98-105: the grid positions of the selection, outside any try.
ComputeIndices ==
    /\ pc = "index"
    /\ IF uploaded_file_1.present /\ dataset_1.none
       THEN /\ exception' \in WhereOnNoneExceptions
            /\ pc' = "crashed"
            /\ UNCHANGED <<thickness_index_1, density_index_1,
                           thickness_index_2, density_index_2>>
       ELSE /\ IF uploaded_file_1.present
               THEN /\ thickness_index_1' = first_index(dataset_1.thicknesses, thickness_selected)
                    /\ density_index_1' = first_index(dataset_1.densities, density_selected)
               ELSE UNCHANGED <<thickness_index_1, density_index_1>>
            /\ IF uploaded_file_2.present /\ dataset_2.none
               THEN /\ exception' \in WhereOnNoneExceptions
                    /\ pc' = "crashed"
                    /\ UNCHANGED <<thickness_index_2, density_index_2>>
               ELSE /\ IF uploaded_file_2.present
                       THEN /\ thickness_index_2' = first_index(dataset_2.thicknesses, thickness_selected)
                            /\ density_index_2' = first_index(dataset_2.densities, density_selected)
                       ELSE UNCHANGED <<thickness_index_2, density_index_2>>
                    /\ exception' = exception
                    /\ pc' = "compare"
    /\ UNCHANGED <<uploaded_file_1, uploaded_file_2, dataset_1, dataset_2,
                   file_name_1, file_name_2, thickness_selected, density_selected,
                   absorption_curve_1, absorption_curve_2, area_1, area_2,
                   diff_percentage, absorption_message, fig, plotted, ui>>

\* thickness_index * len(densities) + density_index
column_index(thickness_index, densities, density_index) ==
    thickness_index * Len(densities) + density_index

\* absorption_data[:, index] raises IndexError when index is out of bounds.
column_in_bounds(absorption_data, index) == index < absorption_data.ncols

slice_column(absorption_data, index) ==
    [i \in 1..Len(absorption_data.rows) |-> absorption_data.rows[i][index + 1]]

\* ax.plot(x, y) raises ValueError unless x and y have the same length.
plot_accepts(x, y) == Len(x) = Len(y)

\* Lines 117-201: the try block and its except ValueError handler.  The
\* result holds the value of every variable the block assigns; reached tells
\* how far the block ran before a ValueError, or "shown" when it completed.
try_block(f_1, c_1, f_2, c_2, name_1, name_2) ==
    LET r1 == calculate_area(f_1, c_1)
        r2 == calculate_area(f_2, c_2)
        cmp == compare(r1.area, r2.area, name_1, name_2)
        message == [method |-> "capitalize", self |-> cmp.sentence]
        line_1 == [x |-> f_1, y |-> c_1, label |-> format_filename(name_1)]
        line_2 == [x |-> f_2, y |-> c_2, label |-> format_filename(name_2)]
        base == [reached |-> "area_1", area_1 |-> Unset, area_2 |-> Unset,
                 diff_percentage |-> UnsetQuotient, absorption_message |-> UnsetMessage,
                 fig |-> FALSE, plotted |-> <<>>, ui |-> {"dimension_error"}]
        compared == [base EXCEPT !.area_1 = r1.area, !.area_2 = r2.area,
                                 !.diff_percentage = cmp.diff_percentage,
                                 !.absorption_message = message,
                                 !.fig = TRUE]
    IN  IF r1.raised THEN base
        ELSE IF r2.raised THEN [base EXCEPT !.reached = "area_2", !.area_1 = r1.area]
        ELSE IF ~plot_accepts(f_1, c_1) THEN [compared EXCEPT !.reached = "plot_1"]
        ELSE IF ~plot_accepts(f_2, c_2)
        THEN [compared EXCEPT !.reached = "plot_2", !.plotted = <<line_1>>]
        ELSE [compared EXCEPT !.reached = "shown", !.plotted = <<line_1, line_2>>,
                              !.ui = {"chart", "message_bound_method_repr"}]

\* Lines 112-203: slice the selected column of each dataset, integrate,
\* compare and plot; or ask for the files.
SliceAndCompare ==
    /\ pc = "compare"
    /\ IF uploaded_file_1.present /\ uploaded_file_2.present
       THEN LET index_1 == column_index(thickness_index_1, dataset_1.densities, density_index_1)
                index_2 == column_index(thickness_index_2, dataset_2.densities, density_index_2)
            IN  IF ~column_in_bounds(dataset_1.absorption_data, index_1)
                THEN /\ exception' = "IndexError"
                     /\ pc' = "crashed"
                     /\ UNCHANGED <<absorption_curve_1, absorption_curve_2, area_1, area_2,
                                    diff_percentage, absorption_message, fig, plotted, ui>>
                ELSE IF ~column_in_bounds(dataset_2.absorption_data, index_2)
                THEN /\ absorption_curve_1' = slice_column(dataset_1.absorption_data, index_1)
                     /\ exception' = "IndexError"
                     /\ pc' = "crashed"
                     /\ UNCHANGED <<absorption_curve_2, area_1, area_2,
                                    diff_percentage, absorption_message, fig, plotted, ui>>
                ELSE LET c_1 == slice_column(dataset_1.absorption_data, index_1)
                         c_2 == slice_column(dataset_2.absorption_data, index_2)
                         r == try_block(dataset_1.frequencies, c_1, dataset_2.frequencies, c_2,
                                        file_name_1, file_name_2)
                     IN  /\ absorption_curve_1' = c_1
                         /\ absorption_curve_2' = c_2
                         /\ area_1' = r.area_1
                         /\ area_2' = r.area_2
                         /\ diff_percentage' = r.diff_percentage
                         /\ absorption_message' = r.absorption_message
                         /\ fig' = r.fig
                         /\ plotted' = r.plotted
                         /\ ui' = ui \cup r.ui
                         /\ exception' = exception
                         /\ pc' = "download"
       ELSE /\ ui' = ui \cup {"upload_warning"}
            /\ pc' = "download"
            /\ UNCHANGED <<absorption_curve_1, absorption_curve_2, area_1, area_2,
                           diff_percentage, absorption_message, fig, plotted, exception>>
    /\ UNCHANGED <<uploaded_file_1, uploaded_file_2, dataset_1, dataset_2,
                   file_name_1, file_name_2, thickness_selected, density_selected,
                   thickness_index_1, density_index_1, thickness_index_2, density_index_2>>

\* Lines 228-240: the download buttons, shown when a figure exists.
Download ==
    /\ pc = "download"
    /\ ui' = IF fig THEN ui \cup {"download_buttons"} ELSE ui
    /\ pc' = "done"
    /\ UNCHANGED <<uploaded_file_1, uploaded_file_2, dataset_1, dataset_2,
                   file_name_1, file_name_2, thickness_selected, density_selected,
                   thickness_index_1, density_index_1, thickness_index_2, density_index_2,
                   absorption_curve_1, absorption_curve_2, area_1, area_2,
                   diff_percentage, absorption_message, fig, plotted, exception>>

Next == Upload \/ LoadData \/ SelectParameters \/ ComputeIndices \/ SliceAndCompare \/ Download

Spec == Init /\ [][Next]_vars

\* ------------------------------------------------------------------------
\* Properties.

\* Line 112: both files are uploaded.
both_uploaded == uploaded_file_1.present /\ uploaded_file_2.present

\* Lines 124-125 have both assigned an area.
areas_computed == area_1.k # "unset" /\ area_2.k # "unset"

\* C1: a readable table with at least 2 columns and a non-missing value in
\* column 0 is extracted to a frequency vector of length >= 1 and an
\* absorption matrix with as many rows as that vector.
C1_ExtractedRowsMatchFrequencies ==
    (both_uploaded /\ pc \notin {"upload", "load"}) =>
        \A pair \in { <<uploaded_file_1, dataset_1>>, <<uploaded_file_2, dataset_2>> } :
            LET table == pair[1].table
                data == pair[2]
            IN  (/\ table.readable
                 /\ table.ncols >= 2
                 /\ \E i \in 1..Len(table.rows) : ~IsNaN(table.rows[i][1]))
                => /\ ~data.none
                   /\ Len(data.frequencies) >= 1
                   /\ Len(data.absorption_data.rows) = Len(data.frequencies)

\* C2: when one of the two uploaded datasets failed to load, the run computes
\* no grid index, slices no column, compares nothing, and raises no uncaught
\* exception.
C2_FailedLoadStopsTheRun ==
    (both_uploaded /\ pc \notin {"upload", "load"} /\ (dataset_1.none \/ dataset_2.none)) =>
        /\ thickness_index_1 = -1
        /\ thickness_index_2 = -1
        /\ absorption_curve_1 = <<>>
        /\ absorption_curve_2 = <<>>
        /\ ~areas_computed
        /\ exception = ""
        /\ ui \cap {"load_error_1", "load_error_2"} # {}

\* C3: when the smaller of the two areas is exactly 0, no percentage message
\* is produced and the percentage is neither infinite nor not-a-number.
C3_ZeroSmallerAreaIsNotCompared ==
    (/\ areas_computed
     /\ ~IsNaN(area_1) /\ ~IsNaN(area_2)
     /\ (IF area_1.v < area_2.v THEN area_1.v ELSE area_2.v) = 0)
    => /\ diff_percentage.k \notin {"inf", "nan"}
       /\ absorption_message.self.percent.k \notin {"inf", "nan"}
       /\ "message_bound_method_repr" \notin ui

\* C4: when the column index computed from the selection is not less than a
\* loaded absorption matrix's column count, the run shows the dimension
\* error and raises no uncaught exception.
C4_ColumnOutOfBoundsIsDimensionError ==
    (/\ both_uploaded /\ ~dataset_1.none /\ ~dataset_2.none
     /\ pc \in {"crashed", "download", "done"}
     /\ \/ ~column_in_bounds(dataset_1.absorption_data,
                column_index(thickness_index_1, dataset_1.densities, density_index_1))
        \/ ~column_in_bounds(dataset_2.absorption_data,
                column_index(thickness_index_2, dataset_2.densities, density_index_2)))
    => /\ exception = ""
       /\ "dimension_error" \in ui
       /\ ui \cap {"load_error_1", "load_error_2"} = {}

\* The comparison with datasets and labels swapped agrees with the one made.
swapped_comparison_agrees ==
    LET swapped == compare(area_2, area_1, file_name_2, file_name_1)
    IN  /\ swapped.diff_percentage = diff_percentage
        /\ swapped.sentence.percent = absorption_message.self.percent
        /\ swapped.sentence.larger = absorption_message.self.larger

\* C5 as stated: for all pairs of areas, equal ones included, comparing
\* (a, b) with labels (L1, L2) and (b, a) with labels (L2, L1) gives the same
\* percentage and names the same label as the one that absorbs more.
C5_SwapSymmetricForAllAreas ==
    areas_computed => swapped_comparison_agrees

\* C5 amended: for all pairs of distinct, non-NaN areas, comparing (a, b)
\* with labels (L1, L2) and (b, a) with labels (L2, L1) gives the same
\* percentage and names the same label as the one that absorbs more.
C5_SwapSymmetricForDistinctAreas ==
    (areas_computed /\ ~IsNaN(area_1) /\ ~IsNaN(area_2) /\ area_1.v # area_2.v)
        => swapped_comparison_agrees

C5_Witness ==
    /\ areas_computed /\ ~IsNaN(area_1) /\ ~IsNaN(area_2)
    /\ area_1.v < area_2.v /\ area_1.v > 0
    /\ absorption_message.self.larger = format_filename(file_name_2)
    /\ "chart" \in ui

\* The end-to-end scenario ran to its end: dataset A and dataset B uploaded.
scenario_run ==
    /\ uploaded_file_1 = UploadedFile(Name_A, ScenarioA)
    /\ uploaded_file_2 = UploadedFile(Name_B, ScenarioB)
    /\ pc = "done"

Dataset_A == <<"D","a","t","a","s","e","t"," ","A">>
Dataset_B == <<"D","a","t","a","s","e","t"," ","B">>

C7_SecondDatasetOnReferenceFrequencies ==
    (areas_computed /\ "chart" \in ui /\ dataset_1.frequencies # dataset_2.frequencies) =>
        /\ Len(absorption_curve_2) = Len(dataset_1.frequencies)
        /\ plotted[2].x = dataset_1.frequencies
        /\ area_2 = calculate_area(dataset_1.frequencies, absorption_curve_2).area

\* A frequency/curve pair of equal length >= 2 without missing values.
reversible_pair(frequencies, curve) ==
    /\ Len(frequencies) = Len(curve)
    /\ Len(curve) >= 2
    /\ \A i \in 1..Len(curve) : ~IsNaN(curve[i])

\* C8 as stated: the area of the reversed frequencies and reversed curve
\* equals the area of the pair.
C8_AreaInvariantUnderReversal ==
    areas_computed =>
        /\ reversible_pair(dataset_1.frequencies, absorption_curve_1) =>
              calculate_area(Reverse(dataset_1.frequencies), Reverse(absorption_curve_1)).area
                = area_1
        /\ reversible_pair(dataset_2.frequencies, absorption_curve_2) =>
              calculate_area(Reverse(dataset_2.frequencies), Reverse(absorption_curve_2)).area
                = area_2

\* C8 amended: the area of the reversed frequencies and reversed curve is
\* the negation of the area of the pair (in exact arithmetic).
C8_AreaNegatedUnderReversal ==
    areas_computed =>
        /\ reversible_pair(dataset_1.frequencies, absorption_curve_1) =>
              calculate_area(Reverse(dataset_1.frequencies), Reverse(absorption_curve_1)).area
                = Num(0 - area_1.v)
        /\ reversible_pair(dataset_2.frequencies, absorption_curve_2) =>
              calculate_area(Reverse(dataset_2.frequencies), Reverse(absorption_curve_2)).area
                = Num(0 - area_2.v)

C8_Witness ==
    /\ areas_computed
    /\ reversible_pair(dataset_1.frequencies, absorption_curve_1)
    /\ Len(absorption_curve_1) >= 3
    /\ area_1.v > 0

\* C9: a curve with fewer than 2 points is not integrated: no numeric area
\* comes out of it and no percentage is computed from it.
C9_ShortCurveIsNotIntegrated ==
    (/\ both_uploaded /\ pc \in {"download", "done"}
     /\ \/ Len(dataset_1.frequencies) < 2 \/ Len(absorption_curve_1) < 2
        \/ Len(dataset_2.frequencies) < 2 \/ Len(absorption_curve_2) < 2)
    => /\ ~areas_computed
       /\ diff_percentage.k = "unset"

\* C10: a table with fewer than 2 columns loads to the all-None result with
\* the loading error shown, never to partial data.
C10_FewerThanTwoColumnsLoadsNone ==
    (both_uploaded /\ pc \notin {"upload", "load"}) =>
        /\ uploaded_file_1.table.ncols < 2 =>
              dataset_1 = NoneDataset /\ "load_error_1" \in ui
        /\ uploaded_file_2.table.ncols < 2 =>
              dataset_2 = NoneDataset /\ "load_error_2" \in ui

C10_Witness ==
    /\ both_uploaded /\ pc = "select"
    /\ uploaded_file_1.table.readable
    /\ uploaded_file_1.table.ncols = 1
    /\ \E i \in 1..Len(uploaded_file_1.table.rows) : ~IsNaN(uploaded_file_1.table.rows[i][1])
    /\ dataset_1.none
    /\ ~dataset_2.none
====
